---- MODULE Spec2Model ----
(***************************************************************************)
(* A model of hackJS (src/hackJS.go): the crawl of a list of target pages, *)
(* the discovery of their scripts, the extraction of links, subdomains and *)
(* sensitive findings from the script bodies, and the reporting and saving *)
(* of the per-target result sets.                                          *)
(*                                                                         *)
(* A Go string is modelled as a sequence of characters, each character a   *)
(* one-character TLA+ string, so that substring, suffix, regular           *)
(* expression and URL operations act on the text itself.                   *)
(***************************************************************************)
EXTENDS Naturals, Sequences, FiniteSets

(***************************************************************************)
(* Characters and byte order                                               *)
(***************************************************************************)
Lower ==
  {"a","b","c","d","e","f","g","h","i","j","k","l","m",
   "n","o","p","q","r","s","t","u","v","w","x","y","z"}

Upper ==
  {"A","B","C","D","E","F","G","H","I","J","K","L","M",
   "N","O","P","Q","R","S","T","U","V","W","X","Y","Z"}

Digit ==
  {"0","1","2","3","4","5","6","7","8","9"}

\* The characters of the model in ascending byte order. ARROW and BULLET
\* stand for the multi-byte characters of the finding format (first bytes
\* 0xE2 and 0xF0), which sort after every ASCII character.
ByteOrder ==
  << "\n", " ", "\"", "#", "%", "'", "(", ")", "-", ".", "/",
     "0","1","2","3","4","5","6","7","8","9", ":", "<", "=", ">",
     "A","B","C","D","E","F","G","H","I","J","K","L","M",
     "N","O","P","Q","R","S","T","U","V","W","X","Y","Z", "_",
     "a","b","c","d","e","f","g","h","i","j","k","l","m",
     "n","o","p","q","r","s","t","u","v","w","x","y","z",
     "ARROW", "BULLET" >>

Chars ==
  { ByteOrder[i] : i \in 1..Len(ByteOrder) }

Ord ==
  [ c \in Chars |-> CHOOSE i \in 1..Len(ByteOrder) : ByteOrder[i] = c ]

(***************************************************************************)
(* package strings                                                         *)
(***************************************************************************)
\* s[from..to], empty when from > to
Slice(s, from, to) ==
  IF from > to THEN << >> ELSE SubSeq(s, from, to)

\* does p occur in s at position i
OccursAt(s, p, i) ==
  /\ i >= 1
  /\ i + Len(p) - 1 <= Len(s)
  /\ \A k \in 1..Len(p) : s[i + k - 1] = p[k]

HasPrefix(s, p) ==
  OccursAt(s, p, 1)

HasSuffix(s, p) ==
  Len(p) <= Len(s) /\ OccursAt(s, p, Len(s) - Len(p) + 1)

Contains(s, p) ==
  \E i \in 1..(Len(s) + 1) : OccursAt(s, p, i)

\* position of the first occurrence of character c at or after i, or
\* Len(s) + 1 when there is none
RECURSIVE IndexFrom(_, _, _)
IndexFrom(s, c, i) ==
  IF i > Len(s) THEN Len(s) + 1
  ELSE IF s[i] = c THEN i
  ELSE IndexFrom(s, c, i + 1)

\* strings.Split(s, c) for a one-character separator
RECURSIVE Split(_, _)
Split(s, c) ==
  LET i == IndexFrom(s, c, 1)
  IN  IF i > Len(s) THEN << s >>
      ELSE << Slice(s, 1, i - 1) >> \o Split(Slice(s, i + 1, Len(s)), c)

\* concatenation of a sequence of strings
RECURSIVE Concat(_)
Concat(ss) ==
  IF ss = << >> THEN << >> ELSE Head(ss) \o Concat(Tail(ss))

\* the elements of a sequence, as a set
Range(q) ==
  { q[i] : i \in 1..Len(q) }

(***************************************************************************)
(* package sort: byte-wise lexicographic order                             *)
(***************************************************************************)
RECURSIVE Less(_, _)
Less(a, b) ==
  IF b = << >> THEN FALSE
  ELSE IF a = << >> THEN TRUE
  ELSE IF Ord[Head(a)] < Ord[Head(b)] THEN TRUE
  ELSE IF Ord[Head(a)] > Ord[Head(b)] THEN FALSE
  ELSE Less(Tail(a), Tail(b))

RECURSIVE Insert(_, _)
Insert(sorted, v) ==
  IF sorted = << >> THEN << v >>
  ELSE IF Less(v, Head(sorted)) THEN << v >> \o sorted
  ELSE << Head(sorted) >> \o Insert(Tail(sorted), v)

RECURSIVE SortStrings(_)
SortStrings(q) ==
  IF q = << >> THEN << >>
  ELSE Insert(SortStrings(Tail(q)), Head(q))

StrictlyAscending(q) ==
  \A i \in 1..(Len(q) - 1) : Less(q[i], q[i + 1])

(***************************************************************************)
(* package net/url, as far as cleanURL, extractDomain and the HTTP client  *)
(* use it. A URL is rejected for an invalid percent escape; the other      *)
(* causes of rejection need characters the inputs of this model lack.      *)
(***************************************************************************)
HexDigit ==
  Digit \cup {"a","b","c","d","e","f","A","B","C","D","E","F"}

\* every "%" is followed by two hexadecimal digits
ValidEscapes(u) ==
  \A i \in 1..Len(u) :
    u[i] = "%" => /\ i + 2 <= Len(u)
                  /\ u[i + 1] \in HexDigit
                  /\ u[i + 2] \in HexDigit

\* url.Parse returns no error
ParseOK(u) ==
  ValidEscapes(u)

\* the URL without "#" and what follows it
BeforeFragment(u) ==
  Slice(u, 1, IndexFrom(u, "#", 1) - 1)

\* URL.Fragment = ""; URL.String(): the parsed URL written back without its
\* fragment. The characters of this model need no re-escaping.
StringNoFragment(u) ==
  BeforeFragment(u)

SchemeChar(c) ==
  c \in Lower \cup Upper \cup Digit \cup {"-", "."}

\* the scheme of u: the text before the first ":" when it starts with a
\* letter and holds only scheme characters, else empty
Scheme(u) ==
  LET b == BeforeFragment(u)
      i == IndexFrom(b, ":", 1)
  IN  IF /\ i > 1
         /\ i <= Len(b)
         /\ b[1] \in Lower \cup Upper
         /\ \A k \in 1..(i - 1) : SchemeChar(b[k])
      THEN Slice(b, 1, i - 1)
      ELSE << >>

\* URL.Hostname(): the authority after "//", up to the path, without port
Hostname(u) ==
  LET b    == BeforeFragment(u)
      sch  == Scheme(u)
      rest == IF sch = << >> THEN b ELSE Slice(b, Len(sch) + 2, Len(b))
  IN  IF HasPrefix(rest, << "/", "/" >>)
      THEN LET auth == Slice(rest, 3, IndexFrom(rest, "/", 3) - 1)
           IN  Slice(auth, 1, IndexFrom(auth, ":", 1) - 1)
      ELSE << >>

(***************************************************************************)
(* Domain utility                                                          *)
(***************************************************************************)
\* cleanURL leaving the fragment in place: the variant C7 is checked against
cleanURL_keep(dirtyURL) ==
  dirtyURL

cleanURL(dirtyURL) ==
  IF ~ParseOK(dirtyURL) THEN dirtyURL
  ELSE StringNoFragment(dirtyURL)

extractDomain(rawURL) ==
  IF ~ParseOK(rawURL) THEN << >>
  ELSE LET host  == Hostname(rawURL)
           parts == Split(host, ".")
           n     == Len(parts)
       IN  IF n >= 2 THEN parts[n - 1] \o << "." >> \o parts[n]
           ELSE host

(***************************************************************************)
(* package regexp: the three patterns of the extractors, matched the way   *)
(* FindAllString matches them (leftmost match, greedy with backtracking,   *)
(* the search resuming after each match).                                  *)
(***************************************************************************)
\* \w
IsWord(c) ==
  c \in Lower \cup Upper \cup Digit \cup {"_"}

\* \b between s[i-1] and s[i]
WordBoundary(s, i) ==
  LET before == i > 1 /\ i - 1 <= Len(s) /\ IsWord(s[i - 1])
      after  == i >= 1 /\ i <= Len(s) /\ IsWord(s[i])
  IN  before # after

\* ---- src="([^"]+\.js)" ----
SrcOpen ==
  << "s", "r", "c", "=", "\"" >>

DotJS ==
  << ".", "j", "s" >>

\* the end (the closing quote) of the match that starts at i, or 0
SrcMatchEnd(s, i) ==
  IF ~OccursAt(s, SrcOpen, i) THEN 0
  ELSE LET q   == IndexFrom(s, "\"", i + Len(SrcOpen))
           run == Slice(s, i + Len(SrcOpen), q - 1)
       IN  IF q <= Len(s) /\ Len(run) > Len(DotJS) /\ HasSuffix(run, DotJS)
           THEN q ELSE 0

\* the captured groups of all matches in s from position i on
RECURSIVE SrcCaptures(_, _)
SrcCaptures(s, i) ==
  IF i > Len(s) THEN << >>
  ELSE LET e == SrcMatchEnd(s, i)
       IN  IF e = 0 THEN SrcCaptures(s, i + 1)
           ELSE << Slice(s, i + Len(SrcOpen), e - 1) >> \o SrcCaptures(s, e + 1)

\* ---- https?://[^\s"<>()']+ ----
LinkTerminators ==
  { " ", "\n", "\"", "<", ">", "(", ")", "'" }

SchemeSep ==
  << ":", "/", "/" >>

\* the length of the maximal run of characters outside LinkTerminators at i
RECURSIVE RunLength(_, _)
RunLength(s, i) ==
  IF i > Len(s) \/ s[i] \in LinkTerminators THEN 0
  ELSE 1 + RunLength(s, i + 1)

\* the end of the match that starts at i, or 0
LinkMatchEnd(s, i) ==
  LET http == << "h", "t", "t", "p" >>
      tail == IF OccursAt(s, http \o << "s" >> \o SchemeSep, i)
              THEN i + Len(http) + 1 + Len(SchemeSep)
              ELSE IF OccursAt(s, http \o SchemeSep, i)
              THEN i + Len(http) + Len(SchemeSep)
              ELSE 0
  IN  IF tail = 0 \/ RunLength(s, tail) = 0 THEN 0
      ELSE tail + RunLength(s, tail) - 1

RECURSIVE LinkMatches(_, _)
LinkMatches(s, i) ==
  IF i > Len(s) THEN << >>
  ELSE LET e == LinkMatchEnd(s, i)
       IN  IF e = 0 THEN LinkMatches(s, i + 1)
           ELSE << Slice(s, i, e) >> \o LinkMatches(s, e + 1)

\* ---- \b(?:[a-z0-9](?:[a-z0-9-]{0,61}[a-z0-9])?\.)+[a-z]{2,6}\b ----
MaxInnerLabel == 61

MinTld == 2

MaxTld == 6

\* [a-z0-9](?:[a-z0-9-]{0,61}[a-z0-9])?
IsLabel(l) ==
  /\ Len(l) >= 1
  /\ Len(l) <= MaxInnerLabel + 2
  /\ l[1] \in Lower \cup Digit
  /\ l[Len(l)] \in Lower \cup Digit
  /\ \A k \in 1..Len(l) : l[k] \in Lower \cup Digit \cup {"-"}

\* the positions that follow each prefix (label.)+ of s at i, ascending
RECURSIVE GroupEnds(_, _)
GroupEnds(s, i) ==
  LET d == IndexFrom(s, ".", i)
  IN  IF d <= Len(s) /\ IsLabel(Slice(s, i, d - 1))
      THEN << d + 1 >> \o GroupEnds(s, d + 1)
      ELSE << >>

\* the lengths m for which [a-z]{m}\b matches at j
TldLengths(s, j) ==
  { m \in MinTld..MaxTld :
      /\ j + m - 1 <= Len(s)
      /\ \A k \in 0..(m - 1) : s[j + k] \in Lower
      /\ WordBoundary(s, j + m) }

Max(S) ==
  CHOOSE m \in S : \A n \in S : n <= m

\* the end of the match that starts at i, or 0: the most label groups that
\* a top-level token can follow, then the longest such token
HostMatchEnd(s, i) ==
  IF ~WordBoundary(s, i) THEN 0
  ELSE LET ge   == GroupEnds(s, i)
           good == { n \in 1..Len(ge) : TldLengths(s, ge[n]) # {} }
       IN  IF good = {} THEN 0
           ELSE LET j == ge[Max(good)]
                IN  j + Max(TldLengths(s, j)) - 1

RECURSIVE HostMatches(_, _)
HostMatches(s, i) ==
  IF i > Len(s) THEN << >>
  ELSE LET e == HostMatchEnd(s, i)
       IN  IF e = 0 THEN HostMatches(s, i + 1)
           ELSE << Slice(s, i, e) >> \o HostMatches(s, e + 1)

(***************************************************************************)
(* Pattern extractors, scope filters, matcher, aggregator                  *)
(***************************************************************************)
\* the elements of q in order, each kept at its first occurrence only
RECURSIVE Unique(_)
Unique(q) ==
  IF q = << >> THEN << >>
  ELSE LET init == Unique(SubSeq(q, 1, Len(q) - 1))
           v    == q[Len(q)]
       IN  IF v \in Range(init) THEN init ELSE Append(init, v)

\* extractJSFiles resolving a root-relative path against the target instead
\* of concatenating: the variant C6 is checked against
extractJSFiles_resolve(html, baseURL) ==
  LET matches == SrcCaptures(html, 1)
      resolve(jsFile) ==
        cleanURL(IF HasPrefix(jsFile, << "h", "t", "t", "p" >>) THEN jsFile
                 ELSE IF HasPrefix(jsFile, << "/" >>) THEN baseURL \o jsFile
                 ELSE baseURL \o << "/" >> \o jsFile)
  IN  [ i \in 1..Len(matches) |-> resolve(matches[i]) ]

extractJSFiles(html, baseURL) ==
  LET matches == SrcCaptures(html, 1)
      resolve(jsFile) ==
        cleanURL(IF ~HasPrefix(jsFile, << "h", "t", "t", "p" >>)
                 THEN baseURL \o << "/" >> \o jsFile
                 ELSE jsFile)
  IN  [ i \in 1..Len(matches) |-> resolve(matches[i]) ]

\* extractLinks without the test for a .js suffix: the variant C10 is
\* checked against
extractLinks_keepJS(jsContent, baseURL) ==
  LET lines       == Split(jsContent, "\n")
      baseDomain  == extractDomain(baseURL)
      keep(match) == Contains(match, baseDomain)
      ofLine(line) ==
        LET kept == SelectSeq(LinkMatches(line, 1), keep)
        IN  [ i \in 1..Len(kept) |-> cleanURL(kept[i]) ]
  IN  Concat([ i \in 1..Len(lines) |-> ofLine(lines[i]) ])

extractLinks(jsContent, baseURL) ==
  LET lines       == Split(jsContent, "\n")
      baseDomain  == extractDomain(baseURL)
      keep(match) == Contains(match, baseDomain) /\ ~HasSuffix(match, DotJS)
      ofLine(line) ==
        LET kept == SelectSeq(LinkMatches(line, 1), keep)
        IN  [ i \in 1..Len(kept) |-> cleanURL(kept[i]) ]
  IN  Concat([ i \in 1..Len(lines) |-> ofLine(lines[i]) ])

extractSubdomains(jsContent, baseURL) ==
  LET lines       == Split(jsContent, "\n")
      baseDomain  == extractDomain(baseURL)
      keep(match) == Contains(match, baseDomain)
  IN  Concat([ i \in 1..Len(lines) |-> SelectSeq(HostMatches(lines[i], 1), keep) ])

\* fmt.Sprintf("BULLET %s ARROW %s", word, jsFile)
Finding(word, jsFile) ==
  << "BULLET", " " >> \o word \o << " ", "ARROW", " " >> \o jsFile

findSensitiveData(words, jsContent, jsFile) ==
  LET hit(word) == Contains(jsContent, word)
      hits      == SelectSeq(words, hit)
  IN  [ i \in 1..Len(hits) |-> Finding(hits[i], jsFile) ]

\* filterLinks without the scope test: the variant C1 is checked against
filterLinks_noScope(links, baseURL) ==
  Unique(links)

filterLinks(links, baseURL) ==
  LET baseDomain == extractDomain(baseURL)
      inScope(link) == Contains(link, baseDomain)
  IN  Unique(SelectSeq(links, inScope))

\* filterSubdomains testing for a substring instead of a suffix: the variant
\* C2 is checked against
filterSubdomains_contains(subs, baseURL) ==
  LET baseDomain == extractDomain(baseURL)
      inScope(subdomain) == Contains(subdomain, baseDomain)
  IN  Unique(SelectSeq(subs, inScope))

filterSubdomains(subs, baseURL) ==
  LET baseDomain == extractDomain(baseURL)
      inScope(subdomain) == HasSuffix(subdomain, baseDomain)
  IN  Unique(SelectSeq(subs, inScope))

\* removeDuplicates without the sort: the variant C3 is checked against
removeDuplicates_unsorted(elements) ==
  Unique(elements)

removeDuplicates(elements) ==
  SortStrings(Unique(elements))

(***************************************************************************)
(* The inputs of the model: target URLs, page markups, script bodies and   *)
(* word lists.                                                             *)
(***************************************************************************)
MaxTargets == 2

HTTPS ==
  << "h", "t", "t", "p", "s", ":", "/", "/" >>

XCom ==
  << "x", ".", "c", "o", "m" >>

\* https://x.com
TargetX ==
  HTTPS \o XCom

\* https://a.x.com
TargetAX ==
  HTTPS \o << "a", "." >> \o XCom

\* https://y.org
TargetY ==
  HTTPS \o << "y", ".", "o", "r", "g" >>

\* x.com: no scheme, which the HTTP client refuses
TargetBare ==
  XCom

TargetPool ==
  { TargetX, TargetAX, TargetY, TargetBare }

\* src="<path>"
SrcAttr(path) ==
  SrcOpen \o path \o << "\"" >>

\* <script src="/app.js">
PageApp ==
  << "<", "s", "c", "r", "i", "p", "t", " " >>
    \o SrcAttr(<< "/", "a", "p", "p", ".", "j", "s" >>) \o << ">" >>

\* src="a.js"
PageA ==
  SrcAttr(<< "a", ".", "j", "s" >>)

\* src="b.js"src='c.js'src="https://x.com/a.js#v.js"
PageTwo ==
  SrcAttr(<< "b", ".", "j", "s" >>)
    \o << "s", "r", "c", "=", "'", "c", ".", "j", "s", "'" >>
    \o SrcAttr(TargetX \o << "/", "a", ".", "j", "s", "#", "v", ".", "j", "s" >>)

\* src="a.js"src="%#a.js"src="a.js"
PageThree ==
  PageA \o SrcAttr(<< "%", "#", "a", ".", "j", "s" >>) \o PageA

\* <p>src='c.js'
PageNone ==
  << "<", "p", ">", "s", "r", "c", "=", "'", "c", ".", "j", "s", "'" >>

PagePool ==
  { PageApp, PageA, PageTwo, PageThree, PageNone }

\* https://x.com/q https://x.com/p
\* a.x.com TOK
BodyLinks ==
  TargetX \o << "/", "q", " " >> \o TargetX \o << "/", "p", "\n" >>
    \o << "a", "." >> \o XCom \o << " ", "T", "O", "K" >>

\* https://x.com/a.js#f https://x.com/b.js https://e.org/#x.com x.com.e.org KEY
BodyScope ==
  TargetX \o << "/", "a", ".", "j", "s", "#", "f", " " >>
    \o TargetX \o << "/", "b", ".", "j", "s", " " >>
    \o HTTPS \o << "e", ".", "o", "r", "g", "/", "#" >> \o XCom
    \o << " " >> \o XCom \o << ".", "e", ".", "o", "r", "g" >>
    \o << " ", "K", "E", "Y" >>

\* https://x.com/%#g'https://x.com/p#h
BodyFragment ==
  TargetX \o << "/", "%", "#", "g", "'" >> \o TargetX \o << "/", "p", "#", "h" >>

\* var
BodyPlain ==
  << "v", "a", "r" >>

BodyPool ==
  { BodyLinks, BodyScope, BodyFragment, BodyPlain }

WordLists ==
  { << >>,
    << << "K", "E", "Y" >> >>,
    << << "T", "O", "K" >>, << "K", "E", "Y" >> >> }

\* what the servers may answer: any page and any body
RichSite ==
  [ pages |-> PagePool, bodies |-> BodyPool ]

\* the answers in runs of several targets
LeanSite ==
  [ pages |-> { PageA }, bodies |-> { BodyLinks, BodyFragment } ]

LeanTargets ==
  { TargetX, TargetAX, TargetY }

\* the sequences over S of length lo..hi
SeqsOf(S, lo, hi) ==
  UNION { [ 1..n -> S ] : n \in lo..hi }

Domains ==
  { extractDomain(t) : t \in TargetPool }

FileNames ==
  { "links.txt", "subdomains.txt", "jsfiles.txt", "sensitive.txt" }

NoFile ==
  [ exists |-> FALSE, data |-> << >> ]

(***************************************************************************)
(* The program state                                                       *)
(***************************************************************************)
VARIABLES
  listFile,        \* the -i flag: "unset", "missing" (cannot be opened), "ok"
  targets,         \* the lines of the target list
  sensitiveWords,  \* the loaded word list
  saveResults,     \* the -s flag
  site,            \* the pages and script bodies the servers may answer
  pc,              \* position: "start", "scan", "page", "script", "done"
  idx,             \* number of target lines scanned so far
  body,            \* processURL: the markup of the page
  jsFiles,         \* processURL: the script references of the page
  k,               \* processURL: index of the next script to fetch
  got,             \* processURL: the answer to each script fetch so far
  results,         \* processURL: links accumulated over the scripts
  subdomains,      \* processURL: subdomains accumulated over the scripts
  sensitiveData,   \* processURL: findings accumulated over the scripts
  out,             \* the console output, one entry per target processed
  files            \* the output directory: domain -> file name -> file

vars ==
  << listFile, targets, sensitiveWords, saveResults, site, pc, idx, body,
     jsFiles, k, got, results, subdomains, sensitiveData, out, files >>

config ==
  << listFile, targets, sensitiveWords, saveResults, site >>

locals ==
  << body, jsFiles, k, got, results, subdomains, sensitiveData >>

FetchError ==
  [ ok |-> FALSE, body |-> << >> ]

Fetched(content) ==
  [ ok |-> TRUE, body |-> content ]

\* the HTTP client accepts the URL: it parses, its scheme is http or https
\* and it names a host
Fetchable(u) ==
  /\ ParseOK(u)
  /\ Scheme(u) \in { << "h", "t", "t", "p" >>, << "h", "t", "t", "p", "s" >> }
  /\ Hostname(u) # << >>

\* the entry of the console output for one target
Entry(url, status, links, subs, js, sens, saved) ==
  [ url |-> url, status |-> status, links |-> links, subdomains |-> subs,
    jsFiles |-> js, sensitive |-> sens, saved |-> saved ]

Init ==
  /\ \/ /\ listFile \in { "unset", "missing" }
        /\ targets = << >>
        /\ site = RichSite
     \/ /\ listFile = "ok"
        /\ targets \in SeqsOf(TargetPool, 0, 1)
        /\ site = RichSite
     \/ /\ listFile = "ok"
        /\ targets \in SeqsOf(LeanTargets, 2, MaxTargets)
        /\ site = LeanSite
  /\ sensitiveWords \in WordLists
  /\ saveResults \in BOOLEAN
  /\ pc = "start"
  /\ idx = 0
  /\ body = << >>
  /\ jsFiles = << >>
  /\ k = 1
  /\ got = << >>
  /\ results = << >>
  /\ subdomains = << >>
  /\ sensitiveData = << >>
  /\ out = << >>
  /\ files = [ d \in Domains |-> [ f \in FileNames |-> NoFile ] ]

(***************************************************************************)
(* processInputURLs                                                        *)
(***************************************************************************)
OpenList ==
  /\ pc = "start"
  /\ \/ /\ listFile = "unset"
        /\ pc' = "done"
     \/ /\ listFile = "missing"
        /\ pc' = "done"
     \/ /\ listFile = "ok"
        /\ pc' = "scan"
  /\ UNCHANGED << config, idx, locals, out, files >>

Scan ==
  /\ pc = "scan"
  /\ IF idx < Len(targets)
     THEN /\ idx' = idx + 1
          /\ pc' = "page"
     ELSE /\ idx' = idx
          /\ pc' = "done"
  /\ body' = << >>
  /\ jsFiles' = << >>
  /\ k' = 1
  /\ got' = << >>
  /\ results' = << >>
  /\ subdomains' = << >>
  /\ sensitiveData' = << >>
  /\ UNCHANGED << config, out, files >>

(***************************************************************************)
(* processURL                                                              *)
(***************************************************************************)
\* FetchPage ending the run on a page fetch error: the variant C5 is
\* checked against
FetchPage_abort ==
  /\ pc = "page"
  /\ LET targetURL == targets[idx]
     IN  \/ /\ out' = Append(out, Entry(targetURL, "pagefail",
                                        << >>, << >>, << >>, << >>, FALSE))
            /\ pc' = "done"
            /\ UNCHANGED << body, jsFiles >>
         \/ /\ Fetchable(targetURL)
            /\ \E page \in site.pages :
                 LET js == extractJSFiles(page, targetURL)
                 IN  /\ body' = page
                     /\ IF js = << >>
                        THEN /\ out' = Append(out, Entry(targetURL, "nojs",
                                                 << >>, << >>, << >>, << >>, FALSE))
                             /\ pc' = "scan"
                             /\ UNCHANGED jsFiles
                        ELSE /\ jsFiles' = js
                             /\ pc' = "script"
                             /\ UNCHANGED out
  /\ UNCHANGED << config, idx, k, got, results, subdomains, sensitiveData, files >>

FetchPage ==
  /\ pc = "page"
  /\ LET targetURL == targets[idx]
     IN  \/ /\ out' = Append(out, Entry(targetURL, "pagefail",
                                        << >>, << >>, << >>, << >>, FALSE))
            /\ pc' = "scan"
            /\ UNCHANGED << body, jsFiles >>
         \/ /\ Fetchable(targetURL)
            /\ \E page \in site.pages :
                 LET js == extractJSFiles(page, targetURL)
                 IN  /\ body' = page
                     /\ IF js = << >>
                        THEN /\ out' = Append(out, Entry(targetURL, "nojs",
                                                 << >>, << >>, << >>, << >>, FALSE))
                             /\ pc' = "scan"
                             /\ UNCHANGED jsFiles
                        ELSE /\ jsFiles' = js
                             /\ pc' = "script"
                             /\ UNCHANGED out
  /\ UNCHANGED << config, idx, k, got, results, subdomains, sensitiveData, files >>

\* FetchScript leaving the loop on a fetch error instead of continuing: the
\* variant C4 is checked against
FetchScript_break ==
  /\ pc = "script"
  /\ k <= Len(jsFiles)
  /\ LET targetURL == targets[idx]
         jsFile    == jsFiles[k]
     IN  \/ /\ got' = Append(got, FetchError)
            /\ k' = Len(jsFiles) + 1
            /\ UNCHANGED << results, subdomains, sensitiveData >>
         \/ /\ Fetchable(jsFile)
            /\ k' = k + 1
            /\ \E jsContent \in site.bodies :
                 /\ got' = Append(got, Fetched(jsContent))
                 /\ results' = results
                      \o filterLinks(extractLinks(jsContent, targetURL), targetURL)
                 /\ subdomains' = subdomains
                      \o filterSubdomains(extractSubdomains(jsContent, targetURL),
                                          targetURL)
                 /\ sensitiveData' = sensitiveData
                      \o findSensitiveData(sensitiveWords, jsContent, jsFile)
  /\ UNCHANGED << config, pc, idx, body, jsFiles, out, files >>

FetchScript ==
  /\ pc = "script"
  /\ k <= Len(jsFiles)
  /\ LET targetURL == targets[idx]
         jsFile    == jsFiles[k]
     IN  \/ /\ got' = Append(got, FetchError)
            /\ UNCHANGED << results, subdomains, sensitiveData >>
         \/ /\ Fetchable(jsFile)
            /\ \E jsContent \in site.bodies :
                 /\ got' = Append(got, Fetched(jsContent))
                 /\ results' = results
                      \o filterLinks(extractLinks(jsContent, targetURL), targetURL)
                 /\ subdomains' = subdomains
                      \o filterSubdomains(extractSubdomains(jsContent, targetURL),
                                          targetURL)
                 /\ sensitiveData' = sensitiveData
                      \o findSensitiveData(sensitiveWords, jsContent, jsFile)
  /\ k' = k + 1
  /\ UNCHANGED << config, pc, idx, body, jsFiles, out, files >>

\* os.Create and the writes: one line per entry
saveToFile(data) ==
  [ exists |-> TRUE,
    data   |-> Concat([ i \in 1..Len(data) |-> data[i] \o << "\n" >> ]) ]

\* saveResultsToFiles writing links.txt for a non-empty category only: the
\* variant C9 is checked against
saveResultsToFiles_guarded(fs, targetURL, links, subs, js, sens, dirOK) ==
  LET domain == extractDomain(targetURL)
  IN  IF domain = << >> \/ ~dirOK THEN fs
      ELSE [ fs EXCEPT ![domain] =
               [ f \in FileNames |->
                   CASE f = "links.txt"      ->
                          IF Len(links) > 0 THEN saveToFile(links)
                          ELSE fs[domain][f]
                     [] f = "subdomains.txt" -> saveToFile(subs)
                     [] f = "jsfiles.txt"    -> saveToFile(js)
                     [] f = "sensitive.txt"  ->
                          IF Len(sens) > 0 THEN saveToFile(sens)
                          ELSE fs[domain][f] ] ]

\* the files after saveResultsToFiles; dirOK: the output directory could be
\* found and created
saveResultsToFiles(fs, targetURL, links, subs, js, sens, dirOK) ==
  LET domain == extractDomain(targetURL)
  IN  IF domain = << >> \/ ~dirOK THEN fs
      ELSE [ fs EXCEPT ![domain] =
               [ f \in FileNames |->
                   CASE f = "links.txt"      -> saveToFile(links)
                     [] f = "subdomains.txt" -> saveToFile(subs)
                     [] f = "jsfiles.txt"    -> saveToFile(js)
                     [] f = "sensitive.txt"  ->
                          IF Len(sens) > 0 THEN saveToFile(sens)
                          ELSE fs[domain][f] ] ]

\* "Results saved to" is printed
Saved(targetURL, dirOK) ==
  extractDomain(targetURL) # << >> /\ dirOK

Report ==
  /\ pc = "script"
  /\ k > Len(jsFiles)
  /\ LET targetURL == targets[idx]
         links == removeDuplicates(results)
         subs  == removeDuplicates(subdomains)
         js    == removeDuplicates(jsFiles)
         sens  == removeDuplicates(sensitiveData)
     IN  \E dirOK \in BOOLEAN :
           /\ files' = IF saveResults
                       THEN saveResultsToFiles(files, targetURL, links, subs,
                                               js, sens, dirOK)
                       ELSE files
           /\ out' = Append(out, Entry(targetURL, "reported", links, subs, js,
                                       sens, saveResults /\ Saved(targetURL, dirOK)))
  /\ pc' = "scan"
  /\ UNCHANGED << config, idx, locals >>

Next ==
  \/ OpenList
  \/ Scan
  \/ FetchPage
  \/ FetchScript
  \/ Report

Spec ==
  Init /\ [][Next]_vars

(***************************************************************************)
(* Vocabulary of the properties                                            *)
(***************************************************************************)
\* the targets whose results were reported
Reported ==
  { i \in 1..Len(out) : out[i].status = "reported" }

\* the RegistrableDomain of the i-th target processed
DomainOf(i) ==
  extractDomain(out[i].url)

\* the last target has just been reported: the locals of processURL are
\* still those of that target
JustReported ==
  /\ pc = "scan"
  /\ idx > 0
  /\ Len(out) = idx
  /\ out[idx].status = "reported"

\* the indexes of the scripts whose fetch succeeded
FetchedOK ==
  { j \in 1..Len(got) : got[j].ok }

\* the absolute-URL matches of a script body, over its lines
RawLinks(jsContent) ==
  LET lines == Split(jsContent, "\n")
  IN  UNION { Range(LinkMatches(lines[i], 1)) : i \in 1..Len(lines) }

HasFragment(u) ==
  Contains(u, << "#" >>)

\* the script URL a finding names: what follows the arrow
FindingURL(f) ==
  LET a == IndexFrom(f, "ARROW", 1)
  IN  Slice(f, a + 2, Len(f))

XLink(path) ==
  TargetX \o << "/" >> \o path

(***************************************************************************)
(* C1: every string reported in Links contains the RegistrableDomain of    *)
(* its Target as a substring.                                              *)
(***************************************************************************)
C1_LinksInScope ==
  \A i \in Reported :
    \A L \in Range(out[i].links) : Contains(L, DomainOf(i))

\* a target was reported with links, after a script body whose token
\* https://e.org/#x.com names the domain in its fragment only
C1_Witness ==
  /\ JustReported
  /\ out[idx].links # << >>
  /\ \E j \in FetchedOK : got[j].body = BodyScope

(***************************************************************************)
(* C2: every string reported in Subdomains ends with the RegistrableDomain *)
(* of its Target.                                                          *)
(***************************************************************************)
C2_SubdomainsInScope ==
  \A i \in Reported :
    \A S \in Range(out[i].subdomains) : HasSuffix(S, DomainOf(i))

\* a target was reported with subdomains, after a script body that holds
\* x.com.e.org, which contains the domain without ending with it
C2_Witness ==
  /\ JustReported
  /\ Len(out[idx].subdomains) >= 1
  /\ \E j \in FetchedOK : got[j].body = BodyScope

(***************************************************************************)
(* C3: when a Target is reported, each of its four categories is strictly  *)
(* ascending in byte order: sorted and without duplicates.                 *)
(***************************************************************************)
C3_SortedNoDuplicates ==
  \A i \in Reported :
    /\ StrictlyAscending(out[i].links)
    /\ StrictlyAscending(out[i].subdomains)
    /\ StrictlyAscending(out[i].jsFiles)
    /\ StrictlyAscending(out[i].sensitive)

\* a report of several links and several findings that were found out of
\* order and more than once, one script fetch having failed
C3_Witness ==
  /\ JustReported
  /\ Len(out[idx].links) >= 2
  /\ Len(out[idx].sensitive) >= 2
  /\ ~StrictlyAscending(results)
  /\ ~StrictlyAscending(jsFiles)
  /\ Len(subdomains) > Len(out[idx].subdomains)
  /\ \E j \in 1..Len(got) : ~got[j].ok

(***************************************************************************)
(* C4: a failed script fetch skips that script only. Every discovered      *)
(* script is fetched, the reported results are exactly what the scripts    *)
(* fetched successfully contribute, and the failed script appears in       *)
(* ScriptReferences.                                                       *)
(***************************************************************************)
C4_FailedScriptSkippedAlone ==
  /\ pc = "script" => Len(got) = k - 1
  /\ JustReported =>
       LET t == out[idx].url
       IN  /\ Len(got) = Len(jsFiles)
           /\ Range(out[idx].links) =
                UNION { Range(filterLinks(extractLinks(got[j].body, t), t)) :
                          j \in FetchedOK }
           /\ Range(out[idx].subdomains) =
                UNION { Range(filterSubdomains(extractSubdomains(got[j].body, t), t)) :
                          j \in FetchedOK }
           /\ Range(out[idx].sensitive) =
                UNION { Range(findSensitiveData(sensitiveWords, got[j].body, jsFiles[j])) :
                          j \in FetchedOK }
           /\ Range(out[idx].jsFiles) = Range(jsFiles)

\* three scripts, the second failed, the first and the third fetched with
\* different bodies, and the links of both reported
C4_Witness ==
  /\ JustReported
  /\ Len(got) = 3
  /\ got[1] = Fetched(BodyLinks)
  /\ ~got[2].ok
  /\ got[3] = Fetched(BodyFragment)
  /\ XLink(<< "q" >>) \in Range(out[idx].links)
  /\ XLink(<< "%", "#", "g" >>) \in Range(out[idx].links)
  /\ jsFiles[2] \in Range(out[idx].jsFiles)

(***************************************************************************)
(* C5: targets are processed one at a time and in list order; a page fetch *)
(* error ends that target only, with nothing saved for it, and the targets *)
(* after it are still processed; when the list was opened, the run ends    *)
(* with every target processed.                                            *)
(***************************************************************************)
Last(q) ==
  q[Len(q)]

C5_Sequential ==
  /\ idx <= Len(targets)
  /\ Len(out) = IF pc \in { "page", "script" } THEN idx - 1 ELSE idx
  /\ \A i \in 1..Len(out) : out[i].url = targets[i]
  /\ \A i \in 1..Len(out) :
       out[i].status = "pagefail" =>
         /\ out[i].links = << >> /\ out[i].subdomains = << >>
         /\ out[i].jsFiles = << >> /\ out[i].sensitive = << >>
         /\ ~out[i].saved
  /\ listFile # "ok" => out = << >>
  /\ (pc = "done" /\ listFile = "ok") => Len(out) = Len(targets)

AppJS ==
  << "a", "p", "p", ".", "j", "s" >>

\* C6 as claimed: <script src="/app.js"> with Target https://x.com yields
\* https://x.com/app.js
C6_Original ==
  (pc = "script" /\ targets[idx] = TargetX /\ body = PageApp)
    => jsFiles = << TargetX \o << "/" >> \o AppJS >>

\* C6 as amended: <script src="/app.js"> with Target https://x.com yields
\* https://x.com//app.js, by the rule of concatenation
C6_ScriptReferences ==
  pc = "script" =>
    LET captured == SrcCaptures(body, 1)
        t        == targets[idx]
    IN  /\ Len(jsFiles) = Len(captured)
        /\ \A i \in 1..Len(captured) :
             jsFiles[i] =
               IF HasPrefix(captured[i], << "h", "t", "t", "p" >>)
               THEN cleanURL(captured[i])
               ELSE cleanURL(t \o << "/" >> \o captured[i])
        /\ (t = TargetX /\ body = PageApp)
             => jsFiles = << TargetX \o << "/", "/" >> \o AppJS >>

\* the scripts of <script src="/app.js"> were extracted for https://x.com
C6_Witness ==
  /\ pc = "script"
  /\ targets[idx] = TargetX
  /\ body = PageApp
  /\ Len(jsFiles) = 1

(***************************************************************************)
(* C7: fragments are stripped from the URLs of a result set.               *)
(***************************************************************************)
\* C7 as claimed: no reported URL carries a fragment, URL tokens the parser
\* rejects included
C7_Original ==
  \A i \in Reported :
    /\ \A u \in Range(out[i].links) \cup Range(out[i].jsFiles) : ~HasFragment(u)
    /\ \A f \in Range(out[i].sensitive) : ~HasFragment(FindingURL(f))

\* C7 as amended: a reported link or script reference carries a fragment
\* only if the URL parser rejects it; the script URL of a finding carries
\* none
C7_FragmentsStripped ==
  \A i \in Reported :
    /\ \A u \in Range(out[i].links) \cup Range(out[i].jsFiles) :
         HasFragment(u) => ~ParseOK(u)
    /\ \A f \in Range(out[i].sensitive) : ~HasFragment(FindingURL(f))

\* a report after the body with https://x.com/%#g and https://x.com/p#h,
\* for a page whose script reference carried a fragment, with a finding
C7_Witness ==
  /\ JustReported
  /\ body = PageTwo
  /\ XLink(<< "p" >>) \in Range(out[idx].links)
  /\ XLink(<< "%", "#", "g" >>) \in Range(out[idx].links)
  /\ XLink(<< "a", ".", "j", "s" >>) \in Range(out[idx].jsFiles)
  /\ out[idx].sensitive # << >>

(***************************************************************************)
(* C8: saving writes each non-empty category to its file and leaves the    *)
(* file of an empty category alone.                                        *)
(***************************************************************************)
Category(e, f) ==
  CASE f = "links.txt"      -> e.links
    [] f = "subdomains.txt" -> e.subdomains
    [] f = "jsfiles.txt"    -> e.jsFiles
    [] f = "sensitive.txt"  -> e.sensitive

\* C8 as claimed, over every step that saves a result set
C8_EmptyCategoryWritesNoFile ==
  [][ (pc = "script" /\ pc' = "scan" /\ Last(out').saved) =>
        LET e == Last(out')
            d == extractDomain(e.url)
        IN  \A f \in FileNames :
              files'[d][f] = IF Category(e, f) # << >>
                             THEN saveToFile(Category(e, f))
                             ELSE files[d][f] ]_vars

(***************************************************************************)
(* C9: what the files of a domain hold after several targets.              *)
(***************************************************************************)
\* the targets of domain d whose results were saved
SavedFor(d) ==
  { i \in 1..Len(out) : out[i].saved /\ DomainOf(i) = d }

C10_Original ==
  \A i \in Reported :
    \A L \in Range(out[i].links) : ~HasSuffix(L, DotJS)

\* C10 as amended: every reported link is the canonical form of a match
\* that does not itself end with .js
C10_NoScriptMatchReported ==
  JustReported =>
    LET raw == UNION { RawLinks(got[j].body) : j \in FetchedOK }
    IN  \A L \in Range(out[idx].links) :
          \E m \in raw : cleanURL(m) = L /\ ~HasSuffix(m, DotJS)

\* a report after the body with https://x.com/a.js#f and
\* https://x.com/b.js: the first is reported without its fragment, the
\* second is not reported
C10_Witness ==
  /\ JustReported
  /\ \E j \in FetchedOK : got[j].body = BodyScope
  /\ XLink(<< "a", ".", "j", "s" >>) \in Range(out[idx].links)
  /\ XLink(<< "b", ".", "j", "s" >>) \notin Range(out[idx].links)

====
